---- MODULE Spec2Model ----
(***************************************************************************)
(* The manifest graph editor: the client store (useEditorStore), its API   *)
(* client, and the backend Manifest Graph Engine the store talks to.       *)
(*                                                                         *)
(* The engine (load, create, update, delete, validate, apply) is modelled  *)
(* from spec.md sections 3-7; the store, the API client and the components *)
(* are modelled from the JavaScript source.                                *)
(*                                                                         *)
(* Spec         the store used one action at a time                        *)
(* SpecSelector the engine driven through api.nodes.create alone           *)
(* SpecLocked   concurrent requests, each inside the mutual-exclusion      *)
(*              scope of spec.md section 5                                 *)
(* SpecRace     the store's graph-returning actions in flight together     *)
(* SpecSelection the store's node and file selections                      *)
(* SpecEditor   PropertyEditor on the selected node                        *)
(* SpecGitHub   GitHubModal and its branch fetches                         *)
(* SpecApply    App's Apply Changes dialog                                 *)
(***************************************************************************)
EXTENDS Integers, Sequences, FiniteSets, TLC

VARIABLES
    session,            \* engine: the GraphModel of the editing session
    baseline,           \* engine: per-file snapshot taken at load / apply
    lastOp,             \* engine: the last operation handled and its outcome
    lock,               \* engine: the requests inside the mutual-exclusion scope
    serial,             \* the same operations run one after the other
    graph,              \* store: graph (NoGraph models null)
    selectedNodeId,     \* store: selectedNodeId (Null models null)
    validationErrors,   \* store: validationErrors
    isLoading,          \* store: isLoading
    error,              \* store: error (NoError models null)
    calls,              \* store: the asynchronous store actions in flight
    lastDone,           \* store: the last store action that completed
    nOps,               \* number of operations started so far
    selectedFile,       \* store: selectedFile (NoFile models null)
    editor,             \* PropertyEditor: mounted or not, and its localNode
    gitHubModal,        \* GitHubModal: its local state and branch fetches
    applyModal          \* App: showApplyModal, commitMessage, applying

vars == <<session, baseline, lastOp, lock, serial, graph, selectedNodeId, validationErrors,
          isLoading, error, calls, lastDone, nOps, selectedFile, editor, gitHubModal,
          applyModal>>

engineVars == <<session, baseline, lastOp, lock, serial>>
storeVars == <<graph, selectedNodeId, validationErrors, isLoading, error>>

\* The file selection and the local state of the components
viewVars == <<selectedFile, editor, gitHubModal, applyModal>>

-----------------------------------------------------------------------------
(* Bounds of the model                                                     *)

MaxOps == 4

-----------------------------------------------------------------------------
(* Values                                                                  *)

Null == <<>>
NoError == "null"
NoFile == ""
None == <<>>
Some(v) == <<v>>

Kinds == {"Deployment", "Service", "ConfigMap"}
Names == {"a", "b"}
Namespaces == {"default", "prod"}
PathOrder == <<"f1.yaml", "f2.yaml">>
Paths == {PathOrder[i] : i \in 1..Len(PathOrder)}

SeqToSet(s) == {s[i] : i \in 1..Len(s)}

\* Array.prototype.filter on a sequence, keeping the order
RECURSIVE SeqWithout(_, _)
SeqWithout(s, x) ==
    IF s = <<>> THEN <<>>
    ELSE IF Head(s) = x THEN SeqWithout(Tail(s), x)
         ELSE <<Head(s)>> \o SeqWithout(Tail(s), x)

\* GraphNode.id: derived deterministically from (kind, namespace, name)
IdOf(kind, namespace, name) == <<kind, namespace, name>>

Identity(n) == <<n.kind, n.namespace, n.name>>

\* A manifest document as the file source delivers it; namespace "" is a
\* document without metadata.namespace
Doc(kind, namespace, name, labels, selector, replicas) ==
    [kind |-> kind, namespace |-> namespace, name |-> name,
     labels |-> labels, selector |-> selector, replicas |-> replicas,
     containers |-> <<>>, ports |-> <<>>]

\* The kind-specific lists of a document: containers of a Deployment, ports
\* of a Service
WithSpec(d, containers, ports) == [d EXCEPT !.containers = containers, !.ports = ports]

Web == [name |-> "web", image |-> "nginx"]
Http == [port |-> 80, targetPort |-> 8080]

\* A document without a recognized kind: an opaque pass-through record
Note == Doc("", "", "note", {}, {}, None)

Recognized(d) == d.kind \in Kinds

AppX == {<<"app", "x">>}

\* fetchFiles(repo, branch, pathPrefix): the contents of the repositories
Repos ==
    [r1 |-> [p \in Paths |->
                IF p = "f1.yaml"
                THEN << WithSpec(Doc("Deployment", "default", "a", AppX, {}, Some(2)),
                                 <<Web>>, <<>>),
                        Note,
                        WithSpec(Doc("Service", "", "b", {}, AppX, None),
                                 <<>>, <<Http>>) >>
                ELSE << Doc("Deployment", "default", "b", {}, {}, Some(1)) >>],
     dup |-> [p \in {"f1.yaml"} |->
                << Doc("Deployment", "default", "a", {}, {}, Some(1)),
                   Doc("Deployment", "default", "a", AppX, {}, Some(2)) >>]]

RepoNames == DOMAIN Repos

-----------------------------------------------------------------------------
(* Engine: Node Builder, Relationship Resolver, Validator                  *)

\* Number of documents in the files that precede path p in load order
RECURSIVE DocsBefore(_, _, _)
DocsBefore(content, p, i) ==
    IF i > Len(PathOrder) \/ PathOrder[i] = p THEN 0
    ELSE (IF PathOrder[i] \in DOMAIN content THEN Len(content[PathOrder[i]]) ELSE 0)
         + DocsBefore(content, p, i + 1)

\* Node Builder: lift the well-known fields, lay the node out by load order
BuildNode(content, p, i) ==
    LET d == content[p][i]
        namespace == IF d.namespace = "" THEN "default" ELSE d.namespace
    IN
    [id |-> IdOf(d.kind, namespace, d.name),
     kind |-> d.kind, namespace |-> namespace, name |-> d.name,
     filePath |-> p, labels |-> d.labels, selector |-> d.selector,
     replicas |-> d.replicas, containers |-> d.containers, ports |-> d.ports,
     visual |-> [x |-> DocsBefore(content, p, 1) + i, y |-> 0]]

\* Mutant of MatchesSelector: the namespaces are not compared
MatchesSelector_AnyNamespace(s, t) ==
    /\ s.kind = "Service"
    /\ t.kind \in {"Deployment", "Pod"}
    /\ s.selector # {}
    /\ s.selector \subseteq t.labels

\* Relationship Resolver: (nodes) -> edges
MatchesSelector(s, t) ==
    /\ s.kind = "Service"
    /\ t.kind \in {"Deployment", "Pod"}
    /\ s.namespace = t.namespace
    /\ s.selector # {}
    /\ s.selector \subseteq t.labels

Resolve(nodes) ==
    {[from |-> s, to |-> t, relationType |-> "selector"] :
        <<s, t>> \in {q \in (DOMAIN nodes) \X (DOMAIN nodes) :
                        MatchesSelector(nodes[q[1]], nodes[q[2]])}}

\* Validator: the fixed rule set over the whole graph
Diag(nodeId, severity, message) ==
    [nodeId |-> nodeId, severity |-> severity, message |-> message]

RuleReplicas(nodes) ==
    {Diag(i, "error", "replicas must be non-negative") :
        i \in {j \in DOMAIN nodes : nodes[j].kind = "Deployment"
                  /\ nodes[j].replicas # None /\ nodes[j].replicas[1] < 0}}
    \cup
    {Diag(i, "warning", "replicas is zero") :
        i \in {j \in DOMAIN nodes : nodes[j].kind = "Deployment"
                  /\ nodes[j].replicas # None /\ nodes[j].replicas[1] = 0}}

RuleOrphanService(nodes) ==
    {Diag(i, "warning", "no matching target") :
        i \in {j \in DOMAIN nodes : nodes[j].kind = "Service"
                  /\ ~\E t \in DOMAIN nodes : MatchesSelector(nodes[j], nodes[t])}}

RuleDuplicate(nodes) ==
    {Diag(i, "error", "duplicate identity") :
        i \in {j \in DOMAIN nodes :
                  \E k \in DOMAIN nodes : k # j /\ Identity(nodes[k]) = Identity(nodes[j])}}

RuleLabelKeys(nodes) ==
    {Diag(i, "error", "empty label key") :
        i \in {j \in DOMAIN nodes : \E l \in nodes[j].labels : l[1] = ""}}

Validate(s) ==
    RuleReplicas(s.nodes) \cup RuleOrphanService(s.nodes)
        \cup RuleDuplicate(s.nodes) \cup RuleLabelKeys(s.nodes)

-----------------------------------------------------------------------------
(* Engine: GraphModel, baseline and replies                                *)

EmptyFn == [i \in {} |-> 0]

\* nodes, edges and files are the GraphModel; docs is each file's document
\* sequence (node slots and opaque records) and origin the documents as loaded
EmptySession ==
    [nodes |-> EmptyFn, edges |-> {}, files |-> EmptyFn, docs |-> EmptyFn,
     origin |-> EmptyFn]

\* A slot of a file's document sequence: a node, or an opaque record
NoDoc == Doc("", "", "", {}, {}, None)
NodeSlot(id) == [opaque |-> FALSE, id |-> id, doc |-> NoDoc]
OpaqueSlot(d) == [opaque |-> TRUE, id |-> Null, doc |-> d]

\* The fields of a node that are written back (visual is presentation-only)
Semantic(n) == [f \in (DOMAIN n) \ {"visual"} |-> n[f]]

NodesOfFile(s, p) == {i \in DOMAIN s.nodes : s.nodes[i].filePath = p}

\* What the baseline records of one file: its membership and its nodes
FileState(s, p) ==
    [nodeIds |-> s.files[p].nodeIds,
     nodes |-> [i \in NodesOfFile(s, p) |-> Semantic(s.nodes[i])]]

Snapshot(s) == [p \in DOMAIN s.files |-> FileState(s, p)]

DiffersFromBaseline(s, b, p) == p \notin DOMAIN b \/ FileState(s, p) # b[p]

\* The JSON graph shape {nodes: [...], edges: [...], files: {path: FileInfo}}
NoGraph == [present |-> FALSE, nodes |-> {}, edges |-> {}, files |-> EmptyFn]

Wire(s) ==
    [present |-> TRUE,
     nodes |-> {s.nodes[i] : i \in DOMAIN s.nodes},
     edges |-> s.edges,
     files |-> s.files]

Reply(ok, err, g, errs, paths) ==
    [ok |-> ok, err |-> err, graph |-> g, errors |-> errs, committedPaths |-> paths]

Failure(err) == Reply(FALSE, err, NoGraph, {}, {})

Outcome(s, b, reply, payload) ==
    [session |-> s, baseline |-> b, reply |-> reply, payload |-> payload]

\* Mutant of MarkDirty: the flag is left as it is
MarkDirty_Forgets(files, p) == files

MarkDirty(files, p) == [files EXCEPT ![p].dirty = TRUE]

\* A sparse patch: only the fields present in fieldUpdates are replaced
Patch(n, upd) == [f \in DOMAIN n |-> IF f \in DOMAIN upd THEN upd[f] ELSE n[f]]

-----------------------------------------------------------------------------
(* Engine: the operations exposed to the HTTP layer                        *)

\* Document Parser and Node Builder on one file of a file set: the nodes of
\* its documents with a recognized kind, by document index
ParseNodes(content, p) ==
    [k \in {j \in 1..Len(content[p]) : Recognized(content[p][j])} |->
        BuildNode(content, p, k)]

\* The ids of the node slots of a document sequence, in order
SlotIds(slots) ==
    LET kept == SelectSeq(slots, LAMBDA sl : ~sl.opaque)
    IN [k \in 1..Len(kept) |-> kept[k].id]

\* load(repo, branch, pathPrefix) -> {graph, diagnostics}
EngLoad(s, b, repo) ==
    LET content == Repos[repo]
        slots == UNION {{<<p, k>> : k \in {j \in 1..Len(content[p]) :
                                               Recognized(content[p][j])}} :
                        p \in DOMAIN content}
        built == [q \in slots |-> BuildNode(content, q[1], q[2])]
        docs == [p \in DOMAIN content |->
                    [k \in 1..Len(content[p]) |->
                        IF <<p, k>> \in slots THEN NodeSlot(built[<<p, k>>].id)
                        ELSE OpaqueSlot(content[p][k])]]
        clash == \E q1, q2 \in slots : q1 # q2 /\ built[q1].id = built[q2].id
        ids == {built[q].id : q \in slots}
        nodes == [i \in ids |-> built[CHOOSE q \in slots : built[q].id = i]]
        files == [p \in DOMAIN content |->
                    [path |-> p, dirty |-> FALSE,
                     nodeIds |-> SlotIds(docs[p])]]
        new == [nodes |-> nodes, edges |-> Resolve(nodes), files |-> files,
                docs |-> docs, origin |-> content]
    IN IF clash
       THEN Outcome(s, b, Failure("LoadError"), EmptyFn)
       ELSE Outcome(new, Snapshot(new), Reply(TRUE, "", Wire(new), Validate(new), {}),
                    EmptyFn)

\* getGraph() -> graph
EngGetGraph(s, b) == Outcome(s, b, Reply(TRUE, "", Wire(s), {}, {}), EmptyFn)

\* validate() -> diagnostics
EngValidate(s, b) == Outcome(s, b, Reply(TRUE, "", NoGraph, Validate(s), {}), EmptyFn)

\* updateNode(nodeId, fieldUpdates) -> {graph, diagnostics}
EngUpdate(s, b, nodeId, upd) ==
    IF nodeId \notin DOMAIN s.nodes
    THEN Outcome(s, b, Failure("NotFoundError"), EmptyFn)
    ELSE LET nodes == [s.nodes EXCEPT ![nodeId] = Patch(@, upd)]
             new == [s EXCEPT !.nodes = nodes,
                              !.edges = Resolve(nodes),
                              !.files = MarkDirty(s.files, s.nodes[nodeId].filePath)]
         IN Outcome(new, b, Reply(TRUE, "", Wire(new), Validate(new), {}), EmptyFn)

\* Mutant of EngCreate: the file is marked dirty before the identity check
EngCreate_MarksBeforeCheck(s, b, node) ==
    IF \E i \in DOMAIN s.nodes : Identity(s.nodes[i]) = Identity(node)
    THEN Outcome([s EXCEPT !.files = IF node.filePath \in DOMAIN s.files
                                     THEN MarkDirty(s.files, node.filePath)
                                     ELSE s.files],
                 b, Failure("ConflictError"), EmptyFn)
    ELSE LET id == IdOf(node.kind, node.namespace, node.name)
             p == node.filePath
             made == [f \in (DOMAIN node) \cup {"id"} |-> IF f = "id" THEN id ELSE node[f]]
             nodes == [i \in (DOMAIN s.nodes) \cup {id} |->
                         IF i = id THEN made ELSE s.nodes[i]]
             files == IF p \in DOMAIN s.files
                      THEN [s.files EXCEPT ![p] =
                              [@ EXCEPT !.dirty = TRUE, !.nodeIds = Append(@, id)]]
                      ELSE [q \in (DOMAIN s.files) \cup {p} |->
                              IF q = p
                              THEN [path |-> p, dirty |-> TRUE, nodeIds |-> <<id>>]
                              ELSE s.files[q]]
             docs == IF p \in DOMAIN s.docs
                     THEN [s.docs EXCEPT ![p] = Append(@, NodeSlot(id))]
                     ELSE [q \in (DOMAIN s.docs) \cup {p} |->
                             IF q = p THEN <<NodeSlot(id)>> ELSE s.docs[q]]
             new == [s EXCEPT !.nodes = nodes, !.edges = Resolve(nodes),
                              !.files = files, !.docs = docs]
         IN Outcome(new, b, Reply(TRUE, "", Wire(new), Validate(new), {}), EmptyFn)

\* createNode(node) -> {graph, diagnostics}
EngCreate(s, b, node) ==
    IF \E i \in DOMAIN s.nodes : Identity(s.nodes[i]) = Identity(node)
    THEN Outcome(s, b, Failure("ConflictError"), EmptyFn)
    ELSE LET id == IdOf(node.kind, node.namespace, node.name)
             p == node.filePath
             made == [f \in (DOMAIN node) \cup {"id"} |-> IF f = "id" THEN id ELSE node[f]]
             nodes == [i \in (DOMAIN s.nodes) \cup {id} |->
                         IF i = id THEN made ELSE s.nodes[i]]
             files == IF p \in DOMAIN s.files
                      THEN [s.files EXCEPT ![p] =
                              [@ EXCEPT !.dirty = TRUE, !.nodeIds = Append(@, id)]]
                      ELSE [q \in (DOMAIN s.files) \cup {p} |->
                              IF q = p
                              THEN [path |-> p, dirty |-> TRUE, nodeIds |-> <<id>>]
                              ELSE s.files[q]]
             docs == IF p \in DOMAIN s.docs
                     THEN [s.docs EXCEPT ![p] = Append(@, NodeSlot(id))]
                     ELSE [q \in (DOMAIN s.docs) \cup {p} |->
                             IF q = p THEN <<NodeSlot(id)>> ELSE s.docs[q]]
             new == [s EXCEPT !.nodes = nodes, !.edges = Resolve(nodes),
                              !.files = files, !.docs = docs]
         IN Outcome(new, b, Reply(TRUE, "", Wire(new), Validate(new), {}), EmptyFn)

\* deleteNode(nodeId) -> {graph, diagnostics}
EngDelete(s, b, nodeId) ==
    IF nodeId \notin DOMAIN s.nodes
    THEN Outcome(s, b, Failure("NotFoundError"), EmptyFn)
    ELSE LET p == s.nodes[nodeId].filePath
             nodes == [i \in (DOMAIN s.nodes) \ {nodeId} |-> s.nodes[i]]
             files == [s.files EXCEPT ![p] =
                          [@ EXCEPT !.dirty = TRUE,
                                    !.nodeIds = SeqWithout(@, nodeId)]]
             docs == [s.docs EXCEPT ![p] =
                         SelectSeq(@, LAMBDA sl : sl.opaque \/ sl.id # nodeId)]
             new == [s EXCEPT !.nodes = nodes, !.edges = Resolve(nodes),
                              !.files = files, !.docs = docs]
         IN Outcome(new, b, Reply(TRUE, "", Wire(new), Validate(new), {}), EmptyFn)

\* Serializer: the documents of a file in the order of its document
\* sequence; a node's typed fields are written out, an opaque record is
\* re-emitted as it was loaded

\* Mutant of DocOf: metadata.labels is not written
DocOf_DropsLabels(n) ==
    WithSpec(Doc(n.kind, n.namespace, n.name, {}, n.selector, n.replicas),
             n.containers, n.ports)

DocOf(n) ==
    WithSpec(Doc(n.kind, n.namespace, n.name, n.labels, n.selector, n.replicas),
             n.containers, n.ports)

\* Mutant of Serialize: only the documents of the file's nodes are written
Serialize_DropsOpaque(s, p) ==
    [k \in 1..Len(s.files[p].nodeIds) |-> DocOf(s.nodes[s.files[p].nodeIds[k]])]

Serialize(s, p) ==
    [k \in 1..Len(s.docs[p]) |->
        IF s.docs[p][k].opaque THEN s.docs[p][k].doc
        ELSE DocOf(s.nodes[s.docs[p][k].id])]

\* Apply Coordinator: dirtyFiles = {f : f.dirty} and the {path: content} payload
DirtyFiles(s) == {p \in DOMAIN s.files : s.files[p].dirty}

\* Mutant of Payload: every tracked file is serialized
Payload_AllFiles(s) == [p \in DOMAIN s.files |-> Serialize(s, p)]

Payload(s) == [p \in DirtyFiles(s) |-> Serialize(s, p)]

\* apply(commitMessage, createPR, prBranch) -> {committedPaths}; sinkOk is the
\* commit sink's acknowledgement. ApplyFinish is what apply does once the
\* commit sink has answered for the payload handed to it.
ApplyFinish(s, b, payload, sinkOk) ==
    LET new == [s EXCEPT !.files = [p \in DOMAIN s.files |->
                                       [s.files[p] EXCEPT !.dirty = FALSE]]]
    IN IF sinkOk
       THEN Outcome(new, Snapshot(new), Reply(TRUE, "", NoGraph, {}, DOMAIN payload),
                    payload)
       ELSE Outcome(s, b, Failure("ApplyError"), payload)

EngApply(s, b, sinkOk) == ApplyFinish(s, b, Payload(s), sinkOk)

-----------------------------------------------------------------------------
(* Inputs of the operations                                                *)

\* An id no repository content and no created node has
UnknownId == IdOf("Deployment", "default", "ghost")

\* The ids a caller can name: those of the graph it holds, and an unknown one
KnownIds == {n.id : n \in graph.nodes}
CallerIds == KnownIds \cup {UnknownId}

\* fieldUpdates, as the property editor's handleSave assembles them
UpdateInputs ==
    { [replicas |-> Some(-1)],
      [replicas |-> Some(2)],
      [name |-> "a"] }

\* fieldUpdates of the updateNode requests sent while others are in flight
ConcurrentUpdates == {[replicas |-> Some(-1)]}

\* The nodes createNode is called with
CreateInputs ==
    { [kind |-> "Deployment", namespace |-> "default", name |-> "a",
       filePath |-> "f1.yaml", labels |-> {}, selector |-> {}, replicas |-> Some(1),
       containers |-> <<>>, ports |-> <<>>, visual |-> [x |-> 0, y |-> 0]],
      [kind |-> "Service", namespace |-> "prod", name |-> "b",
       filePath |-> "f2.yaml", labels |-> {}, selector |-> AppX, replicas |-> None,
       containers |-> <<>>, ports |-> <<>>, visual |-> [x |-> 0, y |-> 0]] }

\* The nodes createNode is called with to exercise selector matching:
\* Services with and without a selector, labelled and unlabelled workloads in
\* both namespaces, and a labelled object that is no workload
AppY == {<<"app", "y">>}

NewNode(kind, namespace, name, labels, selector) ==
    [kind |-> kind, namespace |-> namespace, name |-> name,
     filePath |-> "f1.yaml", labels |-> labels, selector |-> selector,
     replicas |-> None, containers |-> <<>>, ports |-> <<>>,
     visual |-> [x |-> 0, y |-> 0]]

SelectorNodes ==
    {NewNode("Service", ns, "s", l, sel) :
        ns \in Namespaces, l \in {{}, AppX}, sel \in {{}, AppX}}
    \cup {NewNode("Deployment", ns, "d", l, {}) :
        ns \in Namespaces, l \in {{}, AppX, AppY}}
    \cup {NewNode("ConfigMap", "default", "c", l, {}) : l \in {{}, AppX}}

\* The canvas position a node is dragged to
DragTo == [x |-> 7, y |-> 9]

-----------------------------------------------------------------------------
(* Store: asynchronous actions in flight                                   *)

Call(op, nodeId, upd, repo) ==
    [seq |-> nOps + 1, op |-> op, nodeId |-> nodeId, upd |-> upd, repo |-> repo,
     state |-> "sent", reply |-> Failure(""), committed |-> {},
     payload |-> EmptyFn]

NoOp == [seq |-> 0, op |-> "none", nodeId |-> Null, upd |-> EmptyFn, status |-> "",
         payload |-> EmptyFn, committedPaths |-> {}]

\* The record of one engine operation: what was asked and how it ended
Handled(op, nodeId, upd, out) ==
    [seq |-> lastOp.seq + 1, op |-> op, nodeId |-> nodeId, upd |-> upd,
     status |-> IF out.reply.ok THEN "ok" ELSE out.reply.err,
     payload |-> out.payload, committedPaths |-> out.reply.committedPaths]

\* The sequential run: its graph, its baseline and its last outcome
Run(out) ==
    [session |-> out.session, baseline |-> out.baseline,
     status |-> IF out.reply.ok THEN "ok" ELSE out.reply.err,
     payload |-> out.payload]

NoRun == [session |-> EmptySession, baseline |-> EmptyFn, status |-> "",
          payload |-> EmptyFn]

NoneDone == [seq |-> 0, op |-> "none", outcome |-> "none", result |-> {}]

Done(c, outcome, result) ==
    [seq |-> c.seq, op |-> c.op, outcome |-> outcome, result |-> result]

\* PropertyEditor is rendered only while a node is selected; saving tells
\* that handleSave is waiting for updateNode
Unmounted == [mounted |-> FALSE, saving |-> FALSE]

\* The arguments of the last loadFromGitHub of the GitHub dialog
NoRequest == [repo |-> "", branch |-> ""]

\* GitHubModal, rendered only while showGitHubModal is set: its state as
\* useState initialises it, the branch fetches it awaits, and the last
\* request it made
ModalState(open, requested) ==
    [open |-> open, selectedRepoState |-> "", branch |-> "main", branches |-> <<>>,
     loading |-> FALSE, fetches |-> {}, requested |-> requested]

ModalClosed == ModalState(FALSE, NoRequest)

\* App's state of the apply dialog, as useState initialises it; reopened
\* records that the dialog was opened while an apply was awaited
DialogClosed ==
    [showApplyModal |-> FALSE, commitMessage |-> "", applying |-> FALSE,
     reopened |-> FALSE]

Init ==
    /\ session = EmptySession
    /\ baseline = EmptyFn
    /\ lastOp = NoOp
    /\ lock = {}
    /\ serial = NoRun
    /\ graph = NoGraph
    /\ selectedNodeId = Null
    /\ validationErrors = {}
    /\ isLoading = FALSE
    /\ error = NoError
    /\ calls = {}
    /\ lastDone = NoneDone
    /\ nOps = 0
    /\ selectedFile = NoFile
    /\ editor = Unmounted
    /\ gitHubModal = ModalClosed
    /\ applyModal = DialogClosed

CanStart == nOps < MaxOps

\* spec.md section 5: the caller serializes the requests of a session, one
\* handled to completion before the next is issued
Serial(A) == calls = {} /\ A

\* An action of the store, the API client or the backend taken with no
\* component looking on: the file selection and the components' local state
\* stay as they are
NoView(A) == A /\ UNCHANGED viewVars

-----------------------------------------------------------------------------
(* Backend: one request handled to completion                              *)

\* The engine's outcome for the request of call c
EngineOutcome(c, sinkOk) ==
    CASE c.op = "loadFromGitHub" -> EngLoad(session, baseline, c.repo)
      [] c.op = "loadGraph" -> EngGetGraph(session, baseline)
      [] c.op = "updateNode" -> EngUpdate(session, baseline, c.nodeId, c.upd)
      [] c.op = "deleteNode" -> EngDelete(session, baseline, c.nodeId)
      [] c.op = "validate" -> EngValidate(session, baseline)
      [] c.op = "applyChanges" /\ c.state = "sent" -> EngApply(session, baseline, sinkOk)
      [] c.op = "applyChanges" /\ c.state = "sent2" -> EngGetGraph(session, baseline)

EngineOpName(c) ==
    IF c.op = "applyChanges" /\ c.state = "sent2" THEN "loadGraph" ELSE c.op

NextState(c) == IF c.state = "sent" THEN "replied" ELSE "replied2"

\* The backend handles the request of a call; requests in flight at once are
\* handled in any order.
BackendHandle(c, sinkOk) ==
    /\ c \in calls
    /\ c.state \in {"sent", "sent2"}
    /\ sinkOk \/ (c.op = "applyChanges" /\ c.state = "sent")
    /\ LET out == EngineOutcome(c, sinkOk) IN
        /\ session' = out.session
        /\ baseline' = out.baseline
        /\ lastOp' = Handled(EngineOpName(c), c.nodeId, c.upd, out)
        /\ UNCHANGED <<lock, serial>>
        /\ calls' = (calls \ {c}) \cup
                        {[c EXCEPT !.state = NextState(c), !.reply = out.reply,
                                   !.committed = IF c.state = "sent"
                                                 THEN out.reply.committedPaths
                                                 ELSE @]}
    /\ UNCHANGED <<storeVars, lastDone, nOps>>

\* fetchApi: the response is not ok (or fetch itself rejects) without the
\* engine having handled the request. Modelled for the requests the engine
\* itself cannot fail; for the others an engine failure takes the same path.
TransportFailure(c) ==
    /\ c \in calls
    /\ \/ c.op \in {"loadGraph", "validate"} /\ c.state = "sent"
       \/ c.op = "applyChanges" /\ c.state = "sent2"
    /\ calls' = (calls \ {c}) \cup
                    {[c EXCEPT !.state = NextState(c), !.reply = Failure("NetworkError")]}
    /\ UNCHANGED <<engineVars, storeVars, lastDone, nOps>>

\* api.nodes.create(node): a request of the API client; the store has no
\* action around it, so its response is consumed by nobody. The nodes offered
\* are those whose derived id no node of the session holds under another
\* identity (spec.md does not say what the engine does with such an id).
ApiCreateNode(node) ==
    /\ CanStart
    /\ \A i \in DOMAIN session.nodes :
          i = IdOf(node.kind, node.namespace, node.name)
              => Identity(session.nodes[i]) = Identity(node)
    /\ LET out == EngCreate(session, baseline, node) IN
        /\ session' = out.session
        /\ baseline' = out.baseline
        /\ lastOp' = Handled("createNode", IdOf(node.kind, node.namespace, node.name),
                             node, out)
        /\ UNCHANGED <<lock, serial>>
    /\ nOps' = nOps + 1
    /\ UNCHANGED <<storeVars, calls, lastDone>>

-----------------------------------------------------------------------------
(* Backend: concurrent requests, each operation inside one mutual-exclusion *)
(* scope over the whole GraphModel (spec.md section 5)                     *)

\* A request of the API client is sent; its response is consumed by nobody
ApiRequest(op, nodeId, upd, repo) ==
    /\ CanStart
    /\ calls' = calls \cup {Call(op, nodeId, upd, repo)}
    /\ nOps' = nOps + 1
    /\ UNCHANGED <<engineVars, storeVars, lastDone>>

\* Mutant of CanAcquire: the scope excludes nobody
CanAcquire_Unlocked == TRUE

\* The scope is entered only when no operation is inside it
CanAcquire == lock = {}

\* An operation enters the scope; apply computes the dirty files' payload and
\* hands it to the commit sink, whose answer it then waits for
LockAcquire(c) ==
    /\ c \in calls /\ c.state = "sent"
    /\ CanAcquire
    /\ lock' = lock \cup {c.seq}
    /\ calls' = (calls \ {c}) \cup
                    {[c EXCEPT !.state = "held",
                               !.payload = IF c.op = "applyChanges"
                                           THEN Payload(session) ELSE @]}
    /\ UNCHANGED <<session, baseline, lastOp, serial, storeVars, lastDone, nOps>>

\* The operation of request c, run at once on graph s with baseline b
AtomicOutcome(c, s, b, sinkOk) ==
    CASE c.op = "loadFromGitHub" -> EngLoad(s, b, c.repo)
      [] c.op = "updateNode" -> EngUpdate(s, b, c.nodeId, c.upd)
      [] c.op = "deleteNode" -> EngDelete(s, b, c.nodeId)
      [] c.op = "applyChanges" -> EngApply(s, b, sinkOk)

\* The operation inside the scope completes on the graph as it is now and
\* leaves the scope; apply completes with the commit sink's answer for the
\* payload it handed over
LockedComplete(c, sinkOk) ==
    /\ c \in calls /\ c.state = "held"
    /\ sinkOk \/ c.op = "applyChanges"
    /\ LET out == IF c.op = "applyChanges"
                  THEN ApplyFinish(session, baseline, c.payload, sinkOk)
                  ELSE AtomicOutcome(c, session, baseline, sinkOk)
           run == AtomicOutcome(c, serial.session, serial.baseline, sinkOk)
       IN /\ session' = out.session
          /\ baseline' = out.baseline
          /\ lastOp' = Handled(c.op, c.nodeId, c.upd, out)
          /\ serial' = Run(run)
    /\ lock' = lock \ {c.seq}
    /\ calls' = calls \ {c}
    /\ UNCHANGED <<storeVars, lastDone, nOps>>

-----------------------------------------------------------------------------
(* Store: useEditorStore                                                   *)

\* loadGraph, up to the await
LoadGraphStart ==
    /\ CanStart
    /\ isLoading' = TRUE
    /\ error' = NoError
    /\ calls' = calls \cup {Call("loadGraph", Null, EmptyFn, "")}
    /\ nOps' = nOps + 1
    /\ UNCHANGED <<engineVars, graph, selectedNodeId, validationErrors, lastDone>>

\* loadGraph, after the await: set({graph, isLoading: false}) or the catch
LoadGraphDone(c) ==
    /\ c \in calls /\ c.op = "loadGraph" /\ c.state = "replied"
    /\ IF c.reply.ok
       THEN graph' = c.reply.graph /\ error' = error
       ELSE graph' = graph /\ error' = c.reply.err
    /\ isLoading' = FALSE
    /\ calls' = calls \ {c}
    /\ lastDone' = Done(c, "resolved", {})
    /\ UNCHANGED <<engineVars, selectedNodeId, validationErrors, nOps>>

\* loadFromGitHub, up to the await
LoadFromGitHubStart(repo) ==
    /\ CanStart
    /\ isLoading' = TRUE
    /\ error' = NoError
    /\ calls' = calls \cup {Call("loadFromGitHub", Null, EmptyFn, repo)}
    /\ nOps' = nOps + 1
    /\ UNCHANGED <<engineVars, graph, selectedNodeId, validationErrors, lastDone>>

\* loadFromGitHub, after the await
LoadFromGitHubDone(c) ==
    /\ c \in calls /\ c.op = "loadFromGitHub" /\ c.state = "replied"
    /\ IF c.reply.ok
       THEN graph' = c.reply.graph /\ error' = error
       ELSE graph' = graph /\ error' = c.reply.err
    /\ isLoading' = FALSE
    /\ calls' = calls \ {c}
    /\ lastDone' = Done(c, "resolved", {})
    /\ UNCHANGED <<engineVars, selectedNodeId, validationErrors, nOps>>

\* selectNode
SelectNode(nodeId) ==
    /\ CanStart
    /\ selectedNodeId' = nodeId
    /\ nOps' = nOps + 1
    /\ UNCHANGED <<engineVars, graph, validationErrors, isLoading, error, calls, lastDone>>

\* selectFile
SelectFile(filePath) ==
    /\ CanStart
    /\ selectedFile' = filePath
    /\ nOps' = nOps + 1
    /\ UNCHANGED <<engineVars, storeVars, calls, lastDone, editor, gitHubModal, applyModal>>

\* updateNode, up to the await
UpdateNodeStart(nodeId, upd) ==
    /\ CanStart
    /\ calls' = calls \cup {Call("updateNode", nodeId, upd, "")}
    /\ nOps' = nOps + 1
    /\ UNCHANGED <<engineVars, storeVars, lastDone>>

\* Mutant of UpdateNodeDone: only graph is set from the response
UpdateNodeDone_DropsErrors(c) ==
    /\ c \in calls /\ c.op = "updateNode" /\ c.state = "replied"
    /\ IF c.reply.ok
       THEN /\ graph' = c.reply.graph
            /\ validationErrors' = validationErrors
            /\ error' = error
       ELSE /\ error' = c.reply.err
            /\ UNCHANGED <<graph, validationErrors>>
    /\ calls' = calls \ {c}
    /\ lastDone' = Done(c, "resolved", {})
    /\ UNCHANGED <<engineVars, selectedNodeId, isLoading, nOps>>

\* Mutant of UpdateNodeDone: only validationErrors is set from the response
UpdateNodeDone_KeepsGraph(c) ==
    /\ c \in calls /\ c.op = "updateNode" /\ c.state = "replied"
    /\ IF c.reply.ok
       THEN /\ graph' = graph
            /\ validationErrors' = c.reply.errors
            /\ error' = error
       ELSE /\ error' = c.reply.err
            /\ UNCHANGED <<graph, validationErrors>>
    /\ calls' = calls \ {c}
    /\ lastDone' = Done(c, "resolved", {})
    /\ UNCHANGED <<engineVars, selectedNodeId, isLoading, nOps>>

\* updateNode, after the await: set({graph, validationErrors}) or the catch
UpdateNodeDone(c) ==
    /\ c \in calls /\ c.op = "updateNode" /\ c.state = "replied"
    /\ IF c.reply.ok
       THEN /\ graph' = c.reply.graph
            /\ validationErrors' = c.reply.errors
            /\ error' = error
       ELSE /\ error' = c.reply.err
            /\ UNCHANGED <<graph, validationErrors>>
    /\ calls' = calls \ {c}
    /\ lastDone' = Done(c, "resolved", {})
    /\ UNCHANGED <<engineVars, selectedNodeId, isLoading, nOps>>

\* deleteNode, up to the await
DeleteNodeStart(nodeId) ==
    /\ CanStart
    /\ calls' = calls \cup {Call("deleteNode", nodeId, EmptyFn, "")}
    /\ nOps' = nOps + 1
    /\ UNCHANGED <<engineVars, storeVars, lastDone>>

\* nodes.find(n => n.id === id): the nodes of a wire graph, looked up by id
NodesById(nodes) ==
    [i \in {n.id : n \in nodes} |-> CHOOSE n \in nodes : n.id = i]

\* Mutant of LocalDelete: only the node list is filtered
LocalDelete_KeepsEdges(g, nodeId) ==
    [g EXCEPT !.nodes = {n \in g.nodes : n.id # nodeId}]

\* The graph the store keeps after a delete: nodes and edges filtered locally
LocalDelete(g, nodeId) ==
    [g EXCEPT !.nodes = {n \in g.nodes : n.id # nodeId},
              !.edges = {e \in g.edges : e.from # nodeId /\ e.to # nodeId}]

\* Mutant of DeleteNodeDone: the catch clears the selection as the try does
DeleteNodeDone_CatchDeselects(c) ==
    /\ c \in calls /\ c.op = "deleteNode" /\ c.state = "replied"
    /\ IF c.reply.ok
       THEN IF graph.present
            THEN /\ graph' = LocalDelete(graph, c.nodeId)
                 /\ validationErrors' = c.reply.errors
                 /\ selectedNodeId' = Null
                 /\ error' = error
            ELSE UNCHANGED <<graph, validationErrors, selectedNodeId, error>>
       ELSE /\ error' = c.reply.err
            /\ selectedNodeId' = Null
            /\ UNCHANGED <<graph, validationErrors>>
    /\ calls' = calls \ {c}
    /\ lastDone' = Done(c, "resolved", {})
    /\ UNCHANGED <<engineVars, isLoading, nOps>>

\* deleteNode, after the await
DeleteNodeDone(c) ==
    /\ c \in calls /\ c.op = "deleteNode" /\ c.state = "replied"
    /\ IF c.reply.ok
       THEN IF graph.present
            THEN /\ graph' = LocalDelete(graph, c.nodeId)
                 /\ validationErrors' = c.reply.errors
                 /\ selectedNodeId' = Null
                 /\ error' = error
            ELSE UNCHANGED <<graph, validationErrors, selectedNodeId, error>>
       ELSE /\ error' = c.reply.err
            /\ UNCHANGED <<graph, validationErrors, selectedNodeId>>
    /\ calls' = calls \ {c}
    /\ lastDone' = Done(c, "resolved", {})
    /\ UNCHANGED <<engineVars, isLoading, nOps>>

\* Mutant of Moved: the position is written to every node
Moved_EveryNode(g, nodeId, x, y) ==
    [g EXCEPT !.nodes = {[n EXCEPT !.visual = [@ EXCEPT !.x = x, !.y = y]] :
                            n \in g.nodes}]

\* The nodes after a drag: visual.x and visual.y of the node found
Moved(g, nodeId, x, y) ==
    [g EXCEPT !.nodes = {IF n.id = nodeId
                         THEN [n EXCEPT !.visual = [@ EXCEPT !.x = x, !.y = y]]
                         ELSE n : n \in g.nodes}]

\* updateNodePosition
UpdateNodePosition(nodeId, x, y) ==
    /\ CanStart
    /\ graph' = IF graph.present /\ \E n \in graph.nodes : n.id = nodeId
                THEN Moved(graph, nodeId, x, y)
                ELSE graph
    /\ nOps' = nOps + 1
    /\ UNCHANGED <<engineVars, selectedNodeId, validationErrors, isLoading, error,
                   calls, lastDone>>

\* validate, up to the await
ValidateStart ==
    /\ CanStart
    /\ calls' = calls \cup {Call("validate", Null, EmptyFn, "")}
    /\ nOps' = nOps + 1
    /\ UNCHANGED <<engineVars, storeVars, lastDone>>

\* Mutant of ValidateDone: the diagnostics are added to those already held
ValidateDone_Accumulates(c) ==
    /\ c \in calls /\ c.op = "validate" /\ c.state = "replied"
    /\ IF c.reply.ok
       THEN validationErrors' = validationErrors \cup c.reply.errors /\ error' = error
       ELSE validationErrors' = validationErrors /\ error' = c.reply.err
    /\ calls' = calls \ {c}
    /\ lastDone' = Done(c, "resolved", {})
    /\ UNCHANGED <<engineVars, graph, selectedNodeId, isLoading, nOps>>

\* validate, after the await
ValidateDone(c) ==
    /\ c \in calls /\ c.op = "validate" /\ c.state = "replied"
    /\ IF c.reply.ok
       THEN validationErrors' = c.reply.errors /\ error' = error
       ELSE validationErrors' = validationErrors /\ error' = c.reply.err
    /\ calls' = calls \ {c}
    /\ lastDone' = Done(c, "resolved", {})
    /\ UNCHANGED <<engineVars, graph, selectedNodeId, isLoading, nOps>>

\* applyChanges, up to the first await
ApplyChangesStart ==
    /\ CanStart
    /\ isLoading' = TRUE
    /\ error' = NoError
    /\ calls' = calls \cup {Call("applyChanges", Null, EmptyFn, "")}
    /\ nOps' = nOps + 1
    /\ UNCHANGED <<engineVars, graph, selectedNodeId, validationErrors, lastDone>>

\* Mutant of ApplyChangesReplied: the catch sets error only
ApplyChangesReplied_CatchKeepsLoading(c) ==
    /\ c \in calls /\ c.op = "applyChanges" /\ c.state = "replied"
    /\ IF c.reply.ok
       THEN /\ isLoading' = TRUE
            /\ error' = NoError
            /\ calls' = (calls \ {c}) \cup {[c EXCEPT !.state = "sent2"]}
            /\ lastDone' = lastDone
       ELSE /\ isLoading' = isLoading
            /\ error' = c.reply.err
            /\ calls' = calls \ {c}
            /\ lastDone' = Done(c, "rejected", {})
    /\ UNCHANGED <<engineVars, graph, selectedNodeId, validationErrors, nOps>>

\* applyChanges, after api.apply.apply: on success it enters loadGraph (up
\* to that function's await); on failure the catch sets error and rethrows
ApplyChangesReplied(c) ==
    /\ c \in calls /\ c.op = "applyChanges" /\ c.state = "replied"
    /\ IF c.reply.ok
       THEN /\ isLoading' = TRUE
            /\ error' = NoError
            /\ calls' = (calls \ {c}) \cup {[c EXCEPT !.state = "sent2"]}
            /\ lastDone' = lastDone
       ELSE /\ isLoading' = FALSE
            /\ error' = c.reply.err
            /\ calls' = calls \ {c}
            /\ lastDone' = Done(c, "rejected", {})
    /\ UNCHANGED <<engineVars, graph, selectedNodeId, validationErrors, nOps>>

\* applyChanges, after the await of loadGraph: loadGraph's own set (or its
\* catch), then set({isLoading: false}) and the result of the apply returned
ApplyChangesDone(c) ==
    /\ c \in calls /\ c.op = "applyChanges" /\ c.state = "replied2"
    /\ IF c.reply.ok
       THEN graph' = c.reply.graph /\ error' = error
       ELSE graph' = graph /\ error' = c.reply.err
    /\ isLoading' = FALSE
    /\ calls' = calls \ {c}
    /\ lastDone' = Done(c, "resolved", c.committed)
    /\ UNCHANGED <<engineVars, selectedNodeId, validationErrors, nOps>>

\* getDirtyFiles: the paths of the files the store's graph shows as dirty
GetDirtyFiles ==
    IF ~graph.present THEN {}
    ELSE {p \in DOMAIN graph.files : graph.files[p].dirty}

-----------------------------------------------------------------------------
(* App and PropertyEditor: the editor of the selected node                 *)

HasNode(g, nodeId) == \E n \in g.nodes : n.id = nodeId

\* selectedNode = graph?.nodes.find(n => n.id === selectedNodeId) || null
SelectedNode(g, nodeId) == CHOOSE n \in g.nodes : n.id = nodeId

\* The node prop of the mounted editor
Node == SelectedNode(graph, selectedNodeId)

\* The editor as it mounts on node n of graph g: localNode is a copy of n.
\* openedOn, atOpen, intended and touched record the session for the
\* properties: the node and the graph at mount, the node as the user's
\* entries describe it, and the fields entered with the node they were
\* entered for.
Mounted(n, g) ==
    [mounted |-> TRUE, saving |-> FALSE, localNode |-> n,
     openedOn |-> n.id, atOpen |-> g, intended |-> n, touched |-> {}]

\* App renders after a change of the store: the editor unmounts when no node
\* is selected, mounts when one becomes selected, and otherwise stays mounted
\* with the state it has
Render ==
    editor' = IF ~HasNode(graph', selectedNodeId')
              THEN [mounted |-> FALSE, saving |-> editor.saving]
              ELSE IF editor.mounted THEN editor
              ELSE [Mounted(SelectedNode(graph', selectedNodeId'), graph')
                        EXCEPT !.saving = editor.saving]

\* An action of the store with App rendered on it
View(A) == A /\ Render /\ UNCHANGED <<selectedFile, gitHubModal, applyModal>>

\* The user acts on the page when nothing is awaited
User(A) == calls = {} /\ ~editor.saving /\ A

\* {...labels, [key]: value} on labels held as a set of key-value pairs
Override(labels, key, value) == {l \in labels : l[1] # key} \cup {<<key, value>>}

\* parseInt(v) || 1 on the text of a number input
ParseIntOr1(v) == IF v = 0 THEN 1 ELSE v

\* What the user typed into the replicas input, and the key Add Label makes
ReplicasTyped == {0, 3}
NewKeys == {"key-1"}

\* The record of an entry of the user into field
Entered(e, field, value) ==
    [e EXCEPT !.intended = IF Node.id = e.openedOn THEN [@ EXCEPT ![field] = value] ELSE @,
              !.touched = @ \cup {<<field, Node.id>>}]

\* An entry into the editor is one more operation of the user on a page
\* whose engine, store and other components it leaves alone
Entry ==
    /\ CanStart
    /\ nOps' = nOps + 1
    /\ UNCHANGED <<engineVars, selectedNodeId, validationErrors, isLoading, error,
                   calls, lastDone, selectedFile, gitHubModal, applyModal>>

\* handleChange(field, value) from the Name and Namespace inputs
EditBasic(field, value) ==
    /\ editor.mounted
    /\ editor' = [Entered(editor, field, value) EXCEPT !.localNode[field] = value]
    /\ UNCHANGED graph
    /\ Entry

\* The Replicas input
EditReplicas(typed) ==
    /\ editor.mounted
    /\ Node.kind = "Deployment"
    /\ editor' = [Entered(editor, "replicas", Some(typed))
                      EXCEPT !.localNode.replicas = Some(ParseIntOr1(typed))]
    /\ UNCHANGED graph
    /\ Entry

\* The value input of a label of node
EditLabel(key, value) ==
    /\ editor.mounted
    /\ \E l \in Node.labels : l[1] = key
    /\ editor' = [Entered(editor, "labels", Override(editor.intended.labels, key, value))
                      EXCEPT !.localNode.labels = Override(Node.labels, key, value)]
    /\ UNCHANGED graph
    /\ Entry

\* + Add Label
AddLabel(newKey) ==
    /\ editor.mounted
    /\ editor' = [Entered(editor, "labels", Override(editor.intended.labels, newKey, ""))
                      EXCEPT !.localNode.labels = Override(Node.labels, newKey, "")]
    /\ UNCHANGED graph
    /\ Entry

\* The nodes of g with field of node nodeId set to value, as an assignment
\* through a reference to the node's own list leaves them
InPlace(g, nodeId, field, value) ==
    [g EXCEPT !.nodes = {IF n.id = nodeId THEN [n EXCEPT ![field] = value] ELSE n :
                            n \in g.nodes}]

\* The Name and Image inputs of a container: containers[idx][field] = v on a
\* copy of the array node.containers, whose elements are node's own
EditContainer(idx, field, value) ==
    /\ editor.mounted
    /\ Node.kind = "Deployment"
    /\ idx \in DOMAIN Node.containers
    /\ LET containers == [Node.containers EXCEPT ![idx][field] = value] IN
        /\ graph' = InPlace(graph, Node.id, "containers", containers)
        /\ editor' = [Entered(editor, "containers",
                              IF idx \in DOMAIN editor.intended.containers
                              THEN [editor.intended.containers EXCEPT ![idx][field] = value]
                              ELSE editor.intended.containers)
                          EXCEPT !.localNode.containers = containers]
    /\ Entry

\* The port and targetPort inputs of a port of a Service
EditPort(idx, field, value) ==
    /\ editor.mounted
    /\ Node.kind = "Service"
    /\ idx \in DOMAIN Node.ports
    /\ LET ports == [Node.ports EXCEPT ![idx][field] = value] IN
        /\ graph' = InPlace(graph, Node.id, "ports", ports)
        /\ editor' = [Entered(editor, "ports",
                              IF idx \in DOMAIN editor.intended.ports
                              THEN [editor.intended.ports EXCEPT ![idx][field] = value]
                              ELSE editor.intended.ports)
                          EXCEPT !.localNode.ports = ports]
    /\ Entry

\* The fields handleSave compares (serviceType is no field of the model's
\* nodes)
Compared == {"name", "namespace", "labels", "replicas", "selector", "containers", "ports"}

\* localNode.selector && ..., localNode.containers && ..., localNode.ports
\* && ...: a field the node's kind does not have is undefined, which the
\* model's nodes hold as an empty selector or list
Defined(localNode, f) ==
    CASE f = "selector" -> localNode.selector # {}
      [] f \in {"containers", "ports"} -> localNode[f] # <<>>
      [] OTHER -> TRUE

\* handleSave: const updates = {}; if (localNode.f !== node.f) updates.f = ...
Updates(localNode, node) ==
    [f \in {g \in Compared : Defined(localNode, g) /\ localNode[g] # node[g]}
        |-> localNode[f]]

\* onClose = () => selectNode(null), and the render that unmounts the editor
OnClose ==
    /\ selectedNodeId' = Null
    /\ editor' = Unmounted

\* Cancel, and the close button of the header
Cancel ==
    /\ editor.mounted
    /\ OnClose
    /\ UNCHANGED <<engineVars, graph, validationErrors, isLoading, error, calls, lastDone,
                   nOps, selectedFile, gitHubModal, applyModal>>

\* Save Changes, up to the await of updateNode; with no updates, to its end
HandleSave ==
    /\ editor.mounted
    /\ LET updates == Updates(editor.localNode, Node) IN
        IF DOMAIN updates # {}
        THEN /\ UpdateNodeStart(Node.id, updates)
             /\ editor' = [editor EXCEPT !.saving = TRUE]
             /\ UNCHANGED <<selectedFile, gitHubModal, applyModal>>
        ELSE /\ OnClose
             /\ UNCHANGED <<engineVars, graph, validationErrors, isLoading, error, calls,
                            lastDone, nOps, selectedFile, gitHubModal, applyModal>>

\* Save Changes, after the await: onClose()
HandleSaveClose ==
    /\ editor.saving
    /\ calls = {}
    /\ OnClose
    /\ UNCHANGED <<engineVars, graph, validationErrors, isLoading, error, calls, lastDone,
                   nOps, selectedFile, gitHubModal, applyModal>>

-----------------------------------------------------------------------------
(* GitHubModal: the dialog that loads a repository's manifests             *)

\* GET /api/repos/{repo}/branches: the branches of the repositories
Branches == [r1 |-> <<"dev", "main">>, dup |-> <<"fix">>]

ModalFrame == UNCHANGED <<engineVars, storeVars, calls, lastDone, selectedFile, editor,
                          applyModal>>

\* The GitHub button of the header: setShowGitHubModal(true)
OpenGitHubModal ==
    /\ CanStart
    /\ ~gitHubModal.open
    /\ gitHubModal' = ModalState(TRUE, gitHubModal.requested)
    /\ nOps' = nOps + 1
    /\ ModalFrame

\* handleRepoSelect, up to the await of the branch fetch
HandleRepoSelect(repoFullName) ==
    /\ CanStart
    /\ gitHubModal.open
    /\ gitHubModal' = [gitHubModal EXCEPT
                          !.selectedRepoState = repoFullName,
                          !.loading = TRUE,
                          !.fetches = @ \cup {[seq |-> nOps + 1, repo |-> repoFullName]}]
    /\ nOps' = nOps + 1
    /\ ModalFrame

\* handleRepoSelect, after the await: the branches arrived (ok) or the fetch
\* failed; fetches in flight are answered in any order
FetchBranchesDone(f, ok) ==
    /\ gitHubModal.open
    /\ f \in gitHubModal.fetches
    /\ LET repoBranches == Branches[f.repo] IN
        gitHubModal' = [gitHubModal EXCEPT
                          !.branches = IF ok THEN repoBranches ELSE @,
                          !.branch = IF ok /\ Len(repoBranches) > 0
                                     THEN repoBranches[1] ELSE @,
                          !.loading = FALSE,
                          !.fetches = @ \ {f}]
    /\ UNCHANGED nOps
    /\ ModalFrame

\* The branch select, disabled while loading: setBranch(e.target.value)
SetBranch(b) ==
    /\ CanStart
    /\ gitHubModal.open
    /\ gitHubModal.selectedRepoState # ""
    /\ ~gitHubModal.loading
    /\ b \in SeqToSet(gitHubModal.branches)
    /\ gitHubModal' = [gitHubModal EXCEPT !.branch = b]
    /\ nOps' = nOps + 1
    /\ ModalFrame

\* Load Manifests: handleLoad calls loadFromGitHub(selectedRepoState, branch,
\* '') and closes the dialog, whose awaited fetches then find no component
HandleLoad ==
    /\ gitHubModal.open
    /\ gitHubModal.selectedRepoState # "" /\ gitHubModal.branch # ""
    /\ LoadFromGitHubStart(gitHubModal.selectedRepoState)
    /\ gitHubModal' = ModalState(FALSE, [repo |-> gitHubModal.selectedRepoState,
                                        branch |-> gitHubModal.branch])
    /\ UNCHANGED <<selectedFile, editor, applyModal>>

\* Cancel: onClose
CloseGitHubModal ==
    /\ gitHubModal.open
    /\ gitHubModal' = ModalState(FALSE, gitHubModal.requested)
    /\ UNCHANGED nOps
    /\ ModalFrame

-----------------------------------------------------------------------------
(* App: the Apply Changes dialog                                           *)

\* What the user types as commit message, and String.prototype.trim on it
Messages == {"fix", " "}
Trim(m) == IF m = " " THEN "" ELSE m

DialogFrame == UNCHANGED <<engineVars, storeVars, calls, lastDone, nOps, selectedFile,
                           editor, gitHubModal>>

\* The Apply Changes button of the header, rendered while getDirtyFiles()
\* is not empty: setShowApplyModal(true)
OpenApplyModal ==
    /\ GetDirtyFiles # {}
    /\ ~applyModal.showApplyModal
    /\ applyModal' = [applyModal EXCEPT !.showApplyModal = TRUE,
                                        !.reopened = applyModal.applying]
    /\ DialogFrame

\* The commit message input
SetCommitMessage(m) ==
    /\ applyModal.showApplyModal
    /\ applyModal' = [applyModal EXCEPT !.commitMessage = m]
    /\ DialogFrame

\* Cancel: setShowApplyModal(false)
CancelApply ==
    /\ applyModal.showApplyModal
    /\ applyModal' = [applyModal EXCEPT !.showApplyModal = FALSE]
    /\ DialogFrame

\* Mutant of CanApply: the button is not disabled while applying
CanApply_IgnoresApplying == Trim(applyModal.commitMessage) # ""

\* The Apply button is enabled: disabled={!commitMessage.trim() || applying}
CanApply == Trim(applyModal.commitMessage) # "" /\ ~applyModal.applying

\* handleApply, up to the await of applyChanges
HandleApply ==
    /\ applyModal.showApplyModal
    /\ CanApply
    /\ ApplyChangesStart
    /\ applyModal' = [applyModal EXCEPT !.applying = TRUE]
    /\ UNCHANGED <<selectedFile, editor, gitHubModal>>

\* applyChanges goes on to its loadGraph; handleApply still waits
ApplyChangesReloads(c) ==
    /\ c \in calls /\ c.state = "replied" /\ c.reply.ok
    /\ NoView(ApplyChangesReplied(c))

\* handleApply, after applyChanges resolved: setShowApplyModal(false),
\* setCommitMessage(''), and the finally
HandleApplyResolved(c) ==
    /\ ApplyChangesDone(c)
    /\ applyModal' = [applyModal EXCEPT !.showApplyModal = FALSE, !.commitMessage = "",
                                        !.applying = FALSE, !.reopened = FALSE]
    /\ UNCHANGED <<selectedFile, editor, gitHubModal>>

\* handleApply, after applyChanges rejected: the catch, and the finally
HandleApplyRejected(c) ==
    /\ c \in calls /\ c.state = "replied" /\ ~c.reply.ok
    /\ ApplyChangesReplied(c)
    /\ applyModal' = [applyModal EXCEPT !.applying = FALSE, !.reopened = FALSE]
    /\ UNCHANGED <<selectedFile, editor, gitHubModal>>

-----------------------------------------------------------------------------
(* The system                                                              *)

Next ==
    \/ NoView(Serial(LoadGraphStart))
    \/ \E repo \in RepoNames : NoView(Serial(LoadFromGitHubStart(repo)))
    \/ \E i \in KnownIds \cup {Null} : NoView(Serial(SelectNode(i)))
    \/ \E i \in CallerIds, u \in UpdateInputs : NoView(Serial(UpdateNodeStart(i, u)))
    \/ \E i \in CallerIds : NoView(Serial(DeleteNodeStart(i)))
    \/ \E i \in CallerIds : NoView(Serial(UpdateNodePosition(i, DragTo.x, DragTo.y)))
    \/ NoView(Serial(ValidateStart))
    \/ NoView(Serial(ApplyChangesStart))
    \/ \E node \in CreateInputs : NoView(Serial(ApiCreateNode(node)))
    \/ \E c \in calls, sinkOk \in BOOLEAN : NoView(BackendHandle(c, sinkOk))
    \/ \E c \in calls : NoView(TransportFailure(c))
    \/ \E c \in calls : NoView(LoadGraphDone(c))
    \/ \E c \in calls : NoView(LoadFromGitHubDone(c))
    \/ \E c \in calls : NoView(UpdateNodeDone(c))
    \/ \E c \in calls : NoView(DeleteNodeDone(c))
    \/ \E c \in calls : NoView(ValidateDone(c))
    \/ \E c \in calls : NoView(ApplyChangesReplied(c))
    \/ \E c \in calls : NoView(ApplyChangesDone(c))

Spec == Init /\ [][Next]_vars

\* Concurrent requests against one session, each operation inside the
\* mutual-exclusion scope
NextLocked ==
    \/ \E repo \in {"r1"} : NoView(ApiRequest("loadFromGitHub", Null, EmptyFn, repo))
    \/ \E i \in DOMAIN session.nodes, u \in ConcurrentUpdates :
          NoView(ApiRequest("updateNode", i, u, ""))
    \/ \E i \in DOMAIN session.nodes : NoView(ApiRequest("deleteNode", i, EmptyFn, ""))
    \/ NoView(ApiRequest("applyChanges", Null, EmptyFn, ""))
    \/ \E c \in calls : NoView(LockAcquire(c))
    \/ \E c \in calls, sinkOk \in BOOLEAN : NoView(LockedComplete(c, sinkOk))

SpecLocked == Init /\ [][NextLocked]_vars

\* The store's graph-returning actions called without waiting for one
\* another: requests are handled, and their responses arrive, in any order
NextRace ==
    \/ NoView(LoadGraphStart)
    \/ \E repo \in {"r1"} : NoView(LoadFromGitHubStart(repo))
    \/ \E i \in KnownIds, u \in ConcurrentUpdates : NoView(UpdateNodeStart(i, u))
    \/ \E c \in calls : NoView(BackendHandle(c, TRUE))
    \/ \E c \in calls : NoView(LoadGraphDone(c))
    \/ \E c \in calls : NoView(LoadFromGitHubDone(c))
    \/ \E c \in calls : NoView(UpdateNodeDone(c))

SpecRace == Init /\ [][NextRace]_vars

\* The engine driven through api.nodes.create alone, to build node sets for
\* the Relationship Resolver
NextSelector == \E node \in SelectorNodes : NoView(ApiCreateNode(node))

SpecSelector == Init /\ [][NextSelector]_vars

\* The store with its two selections in use: a node is selected on the
\* canvas and a file in the file tree while graphs are loaded, nodes renamed
\* and deleted
NextSelection ==
    \/ NoView(Serial(LoadGraphStart))
    \/ \E repo \in {"r1"} : NoView(Serial(LoadFromGitHubStart(repo)))
    \/ \E i \in KnownIds \cup {Null} : NoView(Serial(SelectNode(i)))
    \/ \E p \in DOMAIN graph.files : Serial(SelectFile(p))
    \/ \E i \in KnownIds, u \in {[name |-> "a"]} : NoView(Serial(UpdateNodeStart(i, u)))
    \/ \E i \in KnownIds : NoView(Serial(DeleteNodeStart(i)))
    \/ \E node \in CreateInputs : NoView(Serial(ApiCreateNode(node)))
    \/ \E c \in calls : NoView(BackendHandle(c, TRUE))
    \/ \E c \in calls : NoView(LoadGraphDone(c))
    \/ \E c \in calls : NoView(LoadFromGitHubDone(c))
    \/ \E c \in calls : NoView(UpdateNodeDone(c))
    \/ \E c \in calls : NoView(DeleteNodeDone(c))

SpecSelection == Init /\ [][NextSelection]_vars

\* The property editor in use on a loaded graph: nodes are selected on the
\* canvas, fields edited, and the editor left with Save Changes or Cancel
NextEditor ==
    \/ \E repo \in {"r1"} : User(View(LoadFromGitHubStart(repo)))
    \/ \E i \in KnownIds : User(View(SelectNode(i)))
    \/ \E f \in {"name", "namespace"}, v \in {"c"} : User(EditBasic(f, v))
    \/ \E typed \in ReplicasTyped : User(EditReplicas(typed))
    \/ \E k \in {"app"}, v \in {"y"} : User(EditLabel(k, v))
    \/ \E k \in NewKeys : User(AddLabel(k))
    \/ \E idx \in {1}, f \in {"image"}, v \in {"httpd"} : User(EditContainer(idx, f, v))
    \/ \E idx \in {1}, f \in {"port"}, v \in {81} : User(EditPort(idx, f, v))
    \/ User(Cancel)
    \/ User(HandleSave)
    \/ HandleSaveClose
    \/ \E c \in calls : NoView(BackendHandle(c, TRUE))
    \/ \E c \in calls : View(LoadFromGitHubDone(c))
    \/ \E c \in calls : View(UpdateNodeDone(c))

SpecEditor == Init /\ [][NextEditor]_vars

\* The GitHub dialog in use: repositories and branches are chosen while
\* branch lists are fetched, and manifests loaded
NextGitHub ==
    \/ OpenGitHubModal
    \/ \E repo \in RepoNames : HandleRepoSelect(repo)
    \/ \E f \in gitHubModal.fetches, ok \in BOOLEAN : FetchBranchesDone(f, ok)
    \/ \E b \in SeqToSet(gitHubModal.branches) : SetBranch(b)
    \/ HandleLoad
    \/ CloseGitHubModal
    \/ \E c \in calls : NoView(BackendHandle(c, TRUE))
    \/ \E c \in calls : NoView(LoadFromGitHubDone(c))

SpecGitHub == Init /\ [][NextGitHub]_vars

\* The Apply Changes dialog in use on a graph with unapplied changes: the
\* dialog is opened, cancelled and reopened, and changes applied, while the
\* commit sink accepts or refuses them
NextApply ==
    \/ \E repo \in {"r1"} : NoView(Serial(LoadFromGitHubStart(repo)))
    \/ \E i \in KnownIds, u \in ConcurrentUpdates : NoView(Serial(UpdateNodeStart(i, u)))
    \/ OpenApplyModal
    \/ \E m \in Messages : SetCommitMessage(m)
    \/ CancelApply
    \/ HandleApply
    \/ \E c \in calls, sinkOk \in BOOLEAN : NoView(BackendHandle(c, sinkOk))
    \/ \E c \in calls : NoView(TransportFailure(c))
    \/ \E c \in calls : NoView(LoadFromGitHubDone(c))
    \/ \E c \in calls : NoView(UpdateNodeDone(c))
    \/ \E c \in calls : ApplyChangesReloads(c)
    \/ \E c \in calls : HandleApplyResolved(c)
    \/ \E c \in calls : HandleApplyRejected(c)

SpecApply == Init /\ [][NextApply]_vars

-----------------------------------------------------------------------------
(* Steps, as the properties below name them                                *)

\* The engine handles a request in this step
EngineStep == lastOp'.seq = lastOp.seq + 1

EngineStepOf(op) == EngineStep /\ lastOp'.op = op

\* The store action of call c ends in this step
Completes(c) == c \in calls /\ \A d \in calls' : d.seq # c.seq

-----------------------------------------------------------------------------
(* Properties                                                              *)

\* C1: after any sequence of load, createNode, updateNode (also updates of
\* name or namespace) and deleteNode, no two nodes of the graph have the same
\* (kind, namespace, name), in the engine's graph and in the store's.
C1_UniqueIdentity ==
    /\ \A i, j \in DOMAIN session.nodes :
          i # j => Identity(session.nodes[i]) # Identity(session.nodes[j])
    /\ \A n, m \in graph.nodes : n # m => Identity(n) # Identity(m)

\* C2: createNode with a (kind, namespace, name) already present fails with
\* ConflictError and leaves nodes, edges, files (membership and dirty flags)
\* and the baseline as they were.
C2_CreateConflictLeavesGraph ==
    [][ ( /\ EngineStepOf("createNode")
          /\ \E i \in DOMAIN session.nodes :
                Identity(session.nodes[i]) = Identity(lastOp'.upd) )
        => ( /\ lastOp'.status = "ConflictError"
             /\ session' = session
             /\ baseline' = baseline ) ]_vars

C2_Witness ==
    /\ lastOp.op = "createNode"
    /\ lastOp.status = "ConflictError"
    /\ \E i \in DOMAIN session.nodes : Identity(session.nodes[i]) = Identity(lastOp.upd)
    /\ \E p \in DOMAIN session.files : ~session.files[p].dirty

\* C3: updateNode or deleteNode with an id that is not in the graph fails with
\* NotFoundError and leaves the engine's graph unchanged; the store's failed
\* call sets error and leaves graph, validationErrors and selectedNodeId.
C3_NotFoundLeavesGraph ==
    [][ /\ ( /\ EngineStep
             /\ lastOp'.op \in {"updateNode", "deleteNode"}
             /\ lastOp'.nodeId \notin DOMAIN session.nodes )
           => ( /\ lastOp'.status = "NotFoundError"
                /\ session' = session
                /\ baseline' = baseline )
        /\ \A c \in calls :
              ( /\ Completes(c)
                /\ c.op \in {"updateNode", "deleteNode"}
                /\ ~c.reply.ok )
              => ( /\ error' = c.reply.err
                   /\ error' # NoError
                   /\ graph' = graph
                   /\ validationErrors' = validationErrors
                   /\ selectedNodeId' = selectedNodeId ) ]_vars

C3_Witness ==
    /\ lastDone.op = "deleteNode"
    /\ lastOp.op = "deleteNode"
    /\ lastOp.status = "NotFoundError"
    /\ error = "NotFoundError"
    /\ graph.present
    /\ selectedNodeId # Null
    /\ validationErrors # {}

\* C4: updateNode(nodeId, fieldUpdates) changes, on the target node, only the
\* fields that are keys of fieldUpdates; every other field of that node and
\* every field of every other node is as before the call, in the engine's
\* graph and in the graph the store holds once the call has completed.
C4_UpdateIsSparse ==
    [][ /\ EngineStepOf("updateNode") /\ lastOp'.status = "ok"
           => \A i \in DOMAIN session.nodes :
                 /\ i \in DOMAIN session'.nodes
                 /\ \A f \in DOMAIN session.nodes[i] :
                       \/ i = lastOp'.nodeId /\ f \in DOMAIN lastOp'.upd
                       \/ session'.nodes[i][f] = session.nodes[i][f]
        /\ \A c \in calls :
              ( Completes(c) /\ c.op = "updateNode" /\ c.reply.ok )
              => \A n \in graph.nodes :
                    \E m \in graph'.nodes :
                       /\ m.id = n.id
                       /\ \A f \in DOMAIN n :
                             \/ n.id = c.nodeId /\ f \in DOMAIN c.upd
                             \/ m[f] = n[f] ]_vars

\* C5: updateNode(nodeId, {replicas: v}) on an existing node marks exactly
\* the node's owning file dirty: that file's flag is true afterwards, every
\* other file's entry is unchanged, and the graph the store holds after the
\* call shows the owning file as dirty.
C5_UpdateMarksOwningFile ==
    [][ /\ ( /\ EngineStepOf("updateNode")
             /\ DOMAIN lastOp'.upd = {"replicas"}
             /\ lastOp'.nodeId \in DOMAIN session.nodes )
           => LET p == session.nodes[lastOp'.nodeId].filePath IN
              /\ lastOp'.status = "ok"
              /\ DOMAIN session'.files = DOMAIN session.files
              /\ session'.files[p].dirty
              /\ \A q \in (DOMAIN session.files) \ {p} :
                    session'.files[q] = session.files[q]
        /\ \A c \in calls :
              ( /\ Completes(c) /\ c.op = "updateNode" /\ c.reply.ok
                /\ DOMAIN c.upd = {"replicas"} )
              => \E n \in graph'.nodes :
                    /\ n.id = c.nodeId
                    /\ n.replicas = c.upd.replicas
                    /\ n.filePath \in DOMAIN graph'.files
                    /\ graph'.files[n.filePath].dirty ]_vars

C5_Witness ==
    /\ lastDone.op = "updateNode"
    /\ lastOp.op = "updateNode"
    /\ lastOp.status = "ok"
    /\ DOMAIN lastOp.upd = {"replicas"}
    /\ \E p, q \in DOMAIN graph.files : graph.files[p].dirty /\ ~graph.files[q].dirty
    /\ \E p, q \in DOMAIN session.files : session.files[p].dirty /\ ~session.files[q].dirty

\* C6: deleteNode of an existing node marks the node's owning file dirty and
\* keeps the file's entry, also when it was the file's only node; once the
\* store's deleteNode has completed, the store's graph shows that file as
\* dirty and getDirtyFiles() includes it.
C6_DeleteMarksFileDirty ==
    [][ /\ ( EngineStepOf("deleteNode") /\ lastOp'.nodeId \in DOMAIN session.nodes )
           => LET p == session.nodes[lastOp'.nodeId].filePath IN
              /\ lastOp'.status = "ok"
              /\ p \in DOMAIN session'.files
              /\ session'.files[p].dirty
        /\ \A c \in calls :
              ( Completes(c) /\ c.op = "deleteNode" /\ c.reply.ok )
              => \A n \in graph.nodes :
                    n.id = c.nodeId => n.filePath \in GetDirtyFiles' ]_vars

C8_ApplyClearsDirty ==
    [][ /\ ( EngineStepOf("applyChanges") /\ lastOp'.status = "ok" )
           => /\ \A p \in DOMAIN session'.files : ~session'.files[p].dirty
              /\ baseline' = Snapshot(session')
              /\ session'.nodes = session.nodes
        /\ \A c \in calls :
              ( Completes(c) /\ c.op = "applyChanges" /\ lastDone'.outcome = "resolved" )
              => GetDirtyFiles' = {} ]_vars

\* C9: when the commit sink fails, apply leaves the graph and every dirty
\* flag as before, so that a retry with no mutation in between submits the
\* same payload; the store's applyChanges rejects, sets error, sets isLoading
\* to false and leaves graph unchanged.
C9_ApplyFailureKeepsState ==
    [][ /\ ( EngineStepOf("applyChanges") /\ lastOp'.status # "ok" )
           => /\ lastOp'.status = "ApplyError"
              /\ session' = session
              /\ baseline' = baseline
        /\ ( /\ EngineStepOf("applyChanges")
             /\ lastOp.op = "applyChanges" /\ lastOp.status = "ApplyError" )
           => lastOp'.payload = lastOp.payload
        /\ \A c \in calls :
              ( Completes(c) /\ c.op = "applyChanges" /\ c.state = "replied" )
              => /\ ~c.reply.ok
                 /\ lastDone'.outcome = "rejected"
                 /\ error' = c.reply.err
                 /\ error' # NoError
                 /\ isLoading' = FALSE
                 /\ graph' = graph ]_vars

C9_Witness ==
    /\ lastDone.op = "applyChanges"
    /\ lastDone.outcome = "rejected"
    /\ lastOp.op = "applyChanges"
    /\ lastOp.status = "ApplyError"
    /\ DOMAIN lastOp.payload # {}
    /\ DirtyFiles(session) = DOMAIN lastOp.payload
    /\ graph.present
    /\ error = "ApplyError"
    /\ ~isLoading

\* C10: the payload apply hands to the commit sink has as its paths exactly
\* the files whose dirty flag is true when apply is called, and the returned
\* committedPaths is that same set.
C10_PayloadIsDirtyFiles ==
    [][ /\ EngineStepOf("applyChanges")
           => LET dirty == {p \in DOMAIN session.files : session.files[p].dirty} IN
              /\ DOMAIN lastOp'.payload = dirty
              /\ \A p \in dirty : lastOp'.payload[p] = Serialize(session, p)
              /\ lastOp'.status = "ok" => lastOp'.committedPaths = dirty
        /\ \A c \in calls :
              ( Completes(c) /\ c.op = "applyChanges" /\ lastDone'.outcome = "resolved" )
              => lastDone'.result = c.committed ]_vars

C10_Witness ==
    /\ lastOp.op = "applyChanges"
    /\ lastOp.status = "ok"
    /\ lastOp.committedPaths # {}
    /\ lastOp.committedPaths # DOMAIN session.files

\* C11: after every completed load, createNode, updateNode or deleteNode the
\* edge list equals the resolver's output on the current nodes, in the
\* engine's graph and in the graph the store holds; every edge's endpoints
\* are ids of nodes of the graph, and after deleteNode no edge has the
\* deleted id as from or to, in the engine and in the store's local graph.
C11_EdgesAreResolved ==
    [][ /\ session'.edges = Resolve(session'.nodes)
        /\ \A e \in session'.edges :
              e.from \in DOMAIN session'.nodes /\ e.to \in DOMAIN session'.nodes
        /\ graph'.edges = Resolve(NodesById(graph'.nodes))
        /\ \A e \in graph'.edges :
              /\ \E n \in graph'.nodes : n.id = e.from
              /\ \E n \in graph'.nodes : n.id = e.to
        /\ ( EngineStepOf("deleteNode") /\ lastOp'.status = "ok" )
           => \A e \in session'.edges :
                 e.from # lastOp'.nodeId /\ e.to # lastOp'.nodeId
        /\ \A c \in calls :
              ( Completes(c) /\ c.op = "deleteNode" /\ c.reply.ok )
              => \A e \in graph'.edges : e.from # c.nodeId /\ e.to # c.nodeId ]_vars

\* The target of the loaded graph's only edge has been deleted through the
\* store, whose graph still holds the Service that selected it
C11_Witness ==
    /\ lastDone.op = "deleteNode"
    /\ lastOp.op = "deleteNode"
    /\ lastOp.status = "ok"
    /\ lastOp.nodeId = IdOf("Deployment", "default", "a")
    /\ graph.present
    /\ \E n \in graph.nodes : n.kind = "Service" /\ n.selector = AppX
    /\ graph.edges = {}
    /\ session.edges = {}

\* The selector edge from node s to node t
SelectorEdge(s, t) == [from |-> s, to |-> t, relationType |-> "selector"]

HasAppX(n) == <<"app", "x">> \in n.labels

C13_FileMembership ==
    [][ /\ \A i \in DOMAIN session'.nodes :
              session'.nodes[i].filePath \in DOMAIN session'.files
        /\ \A p \in DOMAIN session'.files :
              /\ SeqToSet(session'.files[p].nodeIds) = NodesOfFile(session', p)
              /\ Len(session'.files[p].nodeIds) = Cardinality(NodesOfFile(session', p))
        /\ ( EngineStepOf("deleteNode") /\ lastOp'.status = "ok" )
           => /\ DOMAIN session'.files = DOMAIN session.files
              /\ \A p \in DOMAIN session'.files :
                    lastOp'.nodeId \notin SeqToSet(session'.files[p].nodeIds)
        /\ ~EngineStepOf("loadFromGitHub")
           => DOMAIN session.files \subseteq DOMAIN session'.files
        /\ \A n \in graph'.nodes : n.filePath \in DOMAIN graph'.files
        /\ \A p \in DOMAIN graph'.files :
              SeqToSet(graph'.files[p].nodeIds)
                  = {n.id : n \in {m \in graph'.nodes : m.filePath = p}}
        /\ \A c \in calls :
              ( Completes(c) /\ c.op = "deleteNode" /\ c.reply.ok )
              => /\ DOMAIN graph.files \subseteq DOMAIN graph'.files
                 /\ \A p \in DOMAIN graph'.files :
                       c.nodeId \notin SeqToSet(graph'.files[p].nodeIds) ]_vars

\* The error diagnostics among a set of diagnostics
Errors(diags) == {d \in diags : d.severity = "error"}

NegativeReplicas == [replicas |-> Some(-1)]

\* updateNode(nodeId, {replicas: -1}) is handled for an existing Deployment
UpdatesToNegative ==
    /\ EngineStepOf("updateNode")
    /\ lastOp'.upd = NegativeReplicas
    /\ lastOp'.nodeId \in DOMAIN session.nodes
    /\ session.nodes[lastOp'.nodeId].kind = "Deployment"

\* C14 (as claimed): updateNode(app, {replicas: -1}) on a Deployment
\* succeeds, the returned graph contains the node with replicas = -1, and the
\* returned diagnostics contain exactly one error diagnostic, whose nodeId is
\* that node.
C14_SingleErrorDiagnostic ==
    [][ UpdatesToNegative
        => \A c \in calls' :
              c.state = "replied"
              => /\ c.reply.ok
                 /\ \E n \in c.reply.graph.nodes :
                       n.id = c.nodeId /\ n.replicas = Some(-1)
                 /\ Cardinality(Errors(c.reply.errors)) = 1
                 /\ \A d \in Errors(c.reply.errors) : d.nodeId = c.nodeId ]_vars

\* C14 (amended): updateNode(app, {replicas: -1}) on a Deployment succeeds,
\* the returned graph contains the node with replicas = -1 and the store takes
\* that graph and the returned diagnostics; the diagnostics contain the error
\* "replicas must be non-negative" for that node, and it is the only error
\* diagnostic when the graph had no error diagnostic before the update.
C14_ValidationNeverBlocks ==
    [][ /\ UpdatesToNegative
           => \A c \in calls' :
                 c.state = "replied"
                 => /\ c.reply.ok
                    /\ lastOp'.status = "ok"
                    /\ session'.nodes[c.nodeId].replicas = Some(-1)
                    /\ \E n \in c.reply.graph.nodes :
                          n.id = c.nodeId /\ n.replicas = Some(-1)
                    /\ Diag(c.nodeId, "error", "replicas must be non-negative")
                          \in c.reply.errors
                    /\ Errors(Validate(session)) = {}
                       => Errors(c.reply.errors) =
                             {Diag(c.nodeId, "error", "replicas must be non-negative")}
        /\ \A c \in calls :
              ( /\ Completes(c) /\ c.op = "updateNode" /\ c.reply.ok
                /\ c.upd = NegativeReplicas )
              => /\ graph' = c.reply.graph
                 /\ validationErrors' = c.reply.errors
                 /\ error' = error ]_vars

C14_Witness ==
    /\ lastDone.op = "updateNode"
    /\ lastOp.op = "updateNode"
    /\ lastOp.status = "ok"
    /\ lastOp.upd = NegativeReplicas
    /\ \E n \in graph.nodes :
          /\ n.id = lastOp.nodeId /\ n.kind = "Deployment" /\ n.replicas = Some(-1)
          /\ Errors(validationErrors) =
                {Diag(n.id, "error", "replicas must be non-negative")}
    /\ error = NoError

Untouched(s, p) ==
    /\ p \in DOMAIN s.origin
    /\ ~s.files[p].dirty
    /\ Len(s.docs[p]) = Len(s.origin[p])
    /\ \A k \in 1..Len(s.docs[p]) :
          IF Recognized(s.origin[p][k])
          THEN /\ ~s.docs[p][k].opaque
               /\ s.docs[p][k].id \in DOMAIN s.nodes
               /\ s.nodes[s.docs[p][k].id] = BuildNode(s.origin, p, k)
          ELSE s.docs[p][k] = OpaqueSlot(s.origin[p][k])

\* The loaded file set with file p replaced by the serializer's output
Reserialized(s, p) == [s.origin EXCEPT ![p] = Serialize(s, p)]

C18_LockSerializes ==
    [][ /\ Cardinality(lock') <= 1
        /\ session' = serial'.session
        /\ baseline' = serial'.baseline
        /\ EngineStep
           => /\ lastOp'.status = serial'.status
              /\ lastOp'.payload = serial'.payload
        /\ ( EngineStepOf("applyChanges") /\ lastOp'.status = "ok" )
           => \A p \in DOMAIN session'.files :
                 /\ ~session'.files[p].dirty
                 /\ IF p \in DOMAIN lastOp'.payload
                    THEN lastOp'.payload[p] = Serialize(session', p)
                    ELSE ~DiffersFromBaseline(session, baseline, p) ]_vars

\* An apply with a non-empty payload is waiting for the commit sink while an
\* updateNode has been requested
C18_Witness ==
    \E c, d \in calls :
        /\ c.op = "applyChanges" /\ c.state = "held"
        /\ DOMAIN c.payload # {}
        /\ c.seq \in lock
        /\ d.op = "updateNode" /\ d.state = "sent"
        /\ d.seq > c.seq

\* A synchronous store action ran: no request was sent, none was handled and
\* no response was processed
LocalStep == nOps' = nOps + 1 /\ calls' = calls /\ lastOp' = lastOp

\* Node m is node n with at most visual.x and visual.y changed
SameButPosition(n, m) ==
    /\ DOMAIN m = DOMAIN n
    /\ \A f \in (DOMAIN n) \ {"visual"} : m[f] = n[f]
    /\ DOMAIN m.visual = DOMAIN n.visual
    /\ \A f \in (DOMAIN n.visual) \ {"x", "y"} : m.visual[f] = n.visual[f]

\* C19: updateNodePosition(nodeId, x, y) changes only visual.x and visual.y
\* of the node with that id: no other node, no edge, no file entry or dirty
\* flag and no validationErrors entry changes, no backend request is sent and
\* the engine's state is untouched; when graph is null or no node has that id
\* the store's state is unchanged.
C19_PositionOnly ==
    [][ LocalStep
        => /\ UNCHANGED <<session, baseline, validationErrors, isLoading, error,
                          lastDone>>
           /\ graph'.present = graph.present
           /\ graph'.edges = graph.edges
           /\ graph'.files = graph.files
           /\ ~graph.present => graph' = graph
           /\ {m.id : m \in graph'.nodes} = {n.id : n \in graph.nodes}
           /\ Cardinality(graph'.nodes) = Cardinality(graph.nodes)
           /\ \A n \in graph.nodes :
                 \E m \in graph'.nodes : m.id = n.id /\ SameButPosition(n, m)
           /\ Cardinality(graph'.nodes \ graph.nodes) <= 1
           /\ graph' # graph => selectedNodeId' = selectedNodeId ]_vars

\* A node of the store's graph has been dragged while the others kept their
\* place, on a graph that has edges, a dirty file and diagnostics
C19_Witness ==
    /\ graph.present
    /\ \E n, m \in graph.nodes :
          /\ n.visual.x = DragTo.x /\ n.visual.y = DragTo.y
          /\ m.visual.x # DragTo.x
    /\ graph.edges # {}
    /\ GetDirtyFiles # {}
    /\ validationErrors # {}
    /\ calls = {}

\* C20: when several graph-returning requests of the store (updateNode,
\* loadFromGitHub, loadGraph) are in flight at once, then once all their
\* responses have been processed the store's graph is the one produced by the
\* request the backend handled last, whatever the order in which the
\* responses arrive: the store does not end holding an older graph than the
\* backend session's.
C20_LastHandledWins ==
    ( calls = {} /\ graph.present ) => graph = Wire(session)

\* C21: in every reachable store state isLoading is true exactly when at
\* least one loadGraph, loadFromGitHub or applyChanges call has been started
\* and has not yet completed or failed, also when such calls overlap.
C21_LoadingIffPending ==
    isLoading <=> \E c \in calls : c.op \in {"loadGraph", "loadFromGitHub", "applyChanges"}

\* C22: whenever the store holds a graph, selectedNodeId is null or the id of
\* a node of graph.nodes, and selectedFile is null or a key of graph.files,
\* also right after loadFromGitHub, loadGraph, updateNode or deleteNode
\* replaced or shrank the graph.
C22_SelectionInGraph ==
    graph.present =>
        /\ selectedNodeId = Null \/ selectedNodeId \in KnownIds
        /\ selectedFile = NoFile \/ selectedFile \in DOMAIN graph.files

\* C23: closing the property editor with Cancel or the close button, after
\* any entries into name, namespace, replicas, labels, containers or ports,
\* leaves the store's graph exactly as it was when the editor opened, the
\* edited node's containers and ports included, and sends no updateNode.
C23_CancelLeavesGraph ==
    [][Cancel => graph' = editor.atOpen /\ calls' = {}]_vars

\* The node the editor was opened on, as it was then
Original == SelectedNode(editor.atOpen, editor.openedOn)

\* The fields whose value, after the user's entries, is not the original one
ChangedFields == {f \in Compared : editor.intended[f] # Original[f]}

\* The editor has stayed on the node it was opened on
OneNodeSession ==
    /\ selectedNodeId = editor.openedOn
    /\ \A e \in editor.touched : e[2] = editor.openedOn

\* C24: Save calls updateNode with an updates object holding every field the
\* user changed in the editor, with the last value entered (every edited
\* label value, container name or image, and port), and no unchanged field;
\* when nothing changed no request is sent.
C24_SaveSendsChanges ==
    [][(HandleSave /\ OneNodeSession) =>
          IF ChangedFields = {}
          THEN calls' = {}
          ELSE \E c \in calls' :
                  /\ c.op = "updateNode"
                  /\ c.nodeId = editor.openedOn
                  /\ c.upd = [f \in ChangedFields |-> editor.intended[f]]]_vars

\* C25: every updateNode issued by Save carries only values that belong to
\* the node it targets: when the selected node changes while the editor stays
\* open, Save never sends the previous node's values to the new id.
C25_SaveSendsOwnValues ==
    [][HandleSave =>
          \A c \in calls' :
              /\ c.nodeId = selectedNodeId
              /\ \A f \in DOMAIN c.upd : <<f, c.nodeId>> \in editor.touched]_vars

\* C26: Load Manifests calls loadFromGitHub(repo, branch) only with a branch
\* of the branch list fetched for the repository selected: with branch lists
\* arriving out of order, or a fetch pending or failed, no load names a
\* branch of another repository or the default 'main'.
C26_LoadsFetchedBranch ==
    gitHubModal.requested # NoRequest =>
        gitHubModal.requested.branch \in SeqToSet(Branches[gitHubModal.requested.repo])

\* The applyChanges calls awaited
Applies == {c \in calls : c.op = "applyChanges"}

\* C27: from the Apply dialog at most one apply request is in flight at a
\* time: while applying is true no second applyChanges can start, also after
\* the dialog has been cancelled and reopened, and applying is false again
\* whenever the call has completed or failed.
C27_OneApplyInFlight ==
    /\ Cardinality(Applies) <= 1
    /\ applyModal.applying <=> Applies # {}

\* The dialog has been cancelled and reopened while its apply is awaited,
\* with a commit message typed in
C27_Witness ==
    /\ applyModal.applying /\ applyModal.reopened /\ applyModal.showApplyModal
    /\ Trim(applyModal.commitMessage) # ""
    /\ Applies # {}
====
